---- MODULE Spec2Model ----
(***************************************************************************)
(* Token authentication lifecycle of the DreamSoft web client:             *)
(*   tokenManager (in-memory access token), the axios apiClient with its   *)
(*   request interceptor and its 401 response interceptor (isRefreshing /  *)
(*   failedQueue / processQueue), authService (login, logout,              *)
(*   refreshToken) and the zustand auth store (login, logout,              *)
(*   initializeAuth).                                                      *)
(*                                                                         *)
(* One action is one event-loop task: a caller invoking an operation up to *)
(* its first await, or the arrival of one HTTP response together with all  *)
(* promise continuations (microtasks) it triggers.  The server is the      *)
(* environment: it answers every request in flight with any response.      *)
(***************************************************************************)
EXTENDS Integers, Sequences, FiniteSets, TLC

\* ------------------------------------------------------------------------
\* Bounds of the model
\* ------------------------------------------------------------------------
\* operations of callers (requests, login, logout, startup) pending at once
MaxPending == 2
\* runs of the App mount effect
MaxInit == 1
\* access tokens the server issues in one run
MaxTok == 2
\* operations of the auth store pending beside the requests of other callers
MaxAuth == 1

\* ------------------------------------------------------------------------
\* Values
\* ------------------------------------------------------------------------
\* accessToken === null (tokenManager); also "no Authorization header"
Null == 0
\* response.data.accessToken missing: the JavaScript value undefined
Undef == -1
\* the header value "Bearer null": the template `Bearer ${token}` for token null
BearerNull == -2
\* localStorage has no "user" item / response has no user
NoUser == 0
\* the user profile returned by the login endpoint
TheUser == 1

Tokens == 1..MaxTok
TokenValues == Tokens \cup {Null, Undef}

\* JavaScript truthiness of a token value: null, undefined are falsy
Truthy(t) == t \in Tokens

\* tokenManager.hasAccessToken(): accessToken !== null && accessToken !== ''
hasAccessToken(t) == t # Null

\* request kinds and the URL each one is sent to
\*   "api"     any business endpoint          (neither substring below)
\*   "login"   /dreamsoftapi/Login/Login
\*   "logout"  /dreamsoftapi/Login/Logout     (does not contain /Login/Login)
\*   "refresh" /dreamsoftapi/Login/RefreshToken
Kinds == {"api", "login", "logout", "refresh"}

\* variant: the RefreshToken URL is not recognised
UrlNeverRefreshToken(kind) == FALSE
\* originalRequest.url?.includes("/RefreshToken")
UrlIncludesRefreshToken(kind) == kind = "refresh"

\* variant: the Login URL is not recognised
UrlNeverLogin(kind) == FALSE
\* originalRequest.url?.includes("/Login/Login")
UrlIncludesLogin(kind) == kind = "login"

\* window.location.pathname values
Paths == {"/login", "/dashboard", "/register"}

\* the last task did not read window.location.pathname
NotRead == "-"

\* window.location.pathname.includes("/login")
PathIncludesLogin(p) == p = "/login"

\* isPublicRoute(path): PUBLIC_ROUTES = register, forgot-password, reset-password
isPublicRoute(p) == p = "/register"

\* An error response <<http, body>>: http is the HTTP status, 0 when no
\* response was received (timeout, network failure); body is the StatusCode
\* of the body when it matches ErrorResponseSchema, 0 when it does not
ErrorResponses ==
  {<<0, 0>>, <<500, 0>>, <<401, 0>>, <<500, 401>>, <<401, 500>>}

\* variant: the HTTP status decides, the body is not looked at
ClassifyHttpStatus(http, body) == IF http # 0 THEN http ELSE 500
\* variant: every failure counts as unauthorized
ClassifyUnauthorized(http, body) == 401
\* errorResponse.StatusCode: body StatusCode when the body parses as the
\* envelope, else error.response?.status || 500
Classify(http, body) ==
  IF http # 0 /\ body # 0 THEN body
  ELSE IF http # 0 THEN http
  ELSE 500

\* an error value: the errorResponse built for the response to request "of"
NoErr == [sc |-> 0, of |-> 0]

VARIABLES
  reqs,          \* the pending apiClient promises, by request id
  accessToken,   \* tokenManager: let accessToken
  lsUser,        \* localStorage item "user"
  lsItems,       \* keys of the other items the auth code keeps in localStorage
  isRefreshing,  \* client.ts: let isRefreshing
  failedQueue,   \* client.ts: let failedQueue (ids of the waiting requests)
  store,         \* useAuthStore state
  pathname,      \* history: window.location.pathname when the last task read it
  settled,       \* history: the promises settled by the last task
  redirected,    \* history: assignments window.location.href = "/login" of the last task
  outcome,       \* history: how the auth operations that ended in the last task ended
  minted,        \* number of access tokens the server has issued
  nInit,         \* runs of initializeAuth so far
  acted          \* history: the user has invoked login or logout

vars == <<reqs, accessToken, lsUser, lsItems, isRefreshing, failedQueue, store,
          pathname, settled, redirected, outcome, minted,
          nInit, acted>>

Anonymous == [user |-> NoUser, isAuthenticated |-> FALSE, isLoading |-> FALSE]

\* the empty function
Empty == <<>>

\* The program state at the start of a task, as one record, so that a handler
\* is a function on it
State ==
  [reqs |-> reqs, accessToken |-> accessToken, lsUser |-> lsUser,
   lsItems |-> lsItems,
   isRefreshing |-> isRefreshing, failedQueue |-> failedQueue,
   store |-> store, pathname |-> NotRead, settled |-> Empty,
   redirected |-> 0, outcome |-> {}]

Becomes(after) ==
  \E s \in {after} :
    /\ reqs' = s.reqs
    /\ accessToken' = s.accessToken
    /\ lsUser' = s.lsUser
    /\ lsItems' = s.lsItems
    /\ isRefreshing' = s.isRefreshing
    /\ failedQueue' = s.failedQueue
    /\ store' = s.store
    /\ pathname' = s.pathname
    /\ settled' = s.settled
    /\ redirected' = s.redirected
    /\ outcome' = s.outcome

\* ------------------------------------------------------------------------
\* Requests
\* ------------------------------------------------------------------------
\* owner: the code awaiting the apiClient promise of the request
\*   "app"        a caller outside the auth code
\*   "svcLogin"   authService.login   (called by useAuthStore.login)
\*   "svcLogout"  authService.logout
\*   "svcRefresh" authService.refreshToken (called by initializeAuth)
\*   "icpt"       the response interceptor's own refresh call; parent is the
\*                request whose 401 started the cycle
\* retry: originalRequest._retry
\* hdr: config.headers.Authorization: Null when there is no such header, a token
\*      t for "Bearer t", Undef for "Bearer undefined", BearerNull for
\*      "Bearer null"
\* remember: credentials.rememberMe of a Login call
\* st: "inflight", "queued" (promise in failedQueue), "refreshing" (its
\*     handler awaits the refresh call)
\* History fields, not read by the program:
\*   hdr0    header of the first attempt
\*   n401    responses classified 401 it has received
\*   resent  times it was sent again after a refresh
\* A promise that settles leaves reqs and is recorded in settled.
NewReq(kind, owner, parent) ==
  [kind |-> kind, owner |-> owner, parent |-> parent, retry |-> FALSE,
   remember |-> FALSE, hdr |-> Null, st |-> "new", n401 |-> 0, hdr0 |-> Null, resent |-> 0]

Ids(s) == DOMAIN s.reqs

\* the id of the next request: the smallest one not in use
NewId(s) ==
  CHOOSE n \in 1..(Cardinality(Ids(s)) + 1) :
    /\ n \notin Ids(s)
    /\ \A m \in 1..(n - 1) : m \in Ids(s)

\* variant: the token is not kept
setAccessTokenSkips(s, t) == s
\* tokenManager.setAccessToken(token)
setAccessToken(s, t) == [s EXCEPT !.accessToken = t]

\* variant: the token stays in memory
clearAccessTokenKeeps(s) == s
\* tokenManager.clearAccessToken()
clearAccessToken(s) == [s EXCEPT !.accessToken = Null]

\* localStorage.removeItem("user")
removeUser(s) == [s EXCEPT !.lsUser = NoUser]

\* `Bearer ${token}` as a value of hdr
Bearer(token) == IF token = Null THEN BearerNull ELSE token

\* variant: the request interceptor attaches nothing
RequestInterceptorSkips(hdr, token) == hdr
\* request interceptor: attach the token of tokenManager when it is truthy,
\* otherwise leave config.headers.Authorization as it is
RequestInterceptor(hdr, token) ==
  IF Truthy(token) THEN Bearer(token) ELSE hdr

\* apiClient(config): run the request interceptor and put the request on the wire
Send(s, r) ==
  LET h == RequestInterceptor(s.reqs[r].hdr, s.accessToken)
  IN [s EXCEPT !.reqs[r].hdr = h,
               !.reqs[r].hdr0 = IF s.reqs[r].st = "new" THEN h ELSE @,
               !.reqs[r].st = "inflight"]

\* apiClient.post(url) / apiClient.get(url): a fresh config
NewRequest(s, kind, owner, parent) ==
  LET r == NewId(s)
  IN Send([s EXCEPT !.reqs = @ @@ (r :> NewReq(kind, owner, parent))], r)

\* if (!window.location.pathname.includes("/login")) window.location.href = "/login"
\* path is window.location.pathname; the assignment starts a navigation and
\* leaves pathname as it is while the task runs
RedirectToLogin(s, path) ==
  IF PathIncludesLogin(path) THEN [s EXCEPT !.pathname = path]
  ELSE [s EXCEPT !.pathname = path, !.redirected = @ + 1]

\* the promise of r settles: res is "resolved" (with accessToken tok in the
\* response) or "rejected" (with e); resent is copied from the request,
\* before is the token in memory when the promise settles
Finish(s, r, res, e, tok) ==
  [s EXCEPT
     !.settled = @ @@ (r :> [kind |-> s.reqs[r].kind,
                             owner |-> s.reqs[r].owner,
                             res |-> res, err |-> e, data |-> tok,
                             resent |-> s.reqs[r].resent,
                             before |-> s.accessToken]),
     !.reqs = [x \in DOMAIN s.reqs \ {r} |-> s.reqs[x]]]

\* ------------------------------------------------------------------------
\* authService / useAuthStore continuations
\* ------------------------------------------------------------------------
\* the localStorage keys of the Remember Me data
RememberKeys == {"savedCredentials", "rememberMe"}

\* authService.login(credentials): POST Login with the credentials
authLogin(s, rememberMe) ==
  [NewRequest(s, "login", "svcLogin", 0)
     EXCEPT !.reqs[NewId(s)].remember = rememberMe]

\* variant: login also keeps the access token in localStorage
loginStoresPersist(s, rememberMe, tok, usr) ==
  [s EXCEPT !.accessToken = IF Truthy(tok) THEN tok ELSE @,
            !.lsUser = IF usr # NoUser THEN usr ELSE @,
            !.lsItems = (IF rememberMe THEN @ \cup RememberKeys
                         ELSE @ \ RememberKeys) \cup {"authToken"}]
\* authService.login after the Login call resolved: token in memory, user and
\* Remember Me data in localStorage
loginStores(s, rememberMe, tok, usr) ==
  LET s2 == IF Truthy(tok) THEN setAccessToken(s, tok) ELSE s
      s3 == IF usr # NoUser THEN [s2 EXCEPT !.lsUser = usr] ELSE s2
  IN [s3 EXCEPT !.lsItems = IF rememberMe THEN @ \cup RememberKeys
                            ELSE @ \ RememberKeys]

\* the operation op of authService or useAuthStore ends: its promise is
\* "resolved" or "rejected"; a synchronous one has "returned" or "thrown"
Ends(s, op, res) == [s EXCEPT !.outcome = @ \cup {[op |-> op, res |-> res]}]

\* authService.logout(): POST Logout; the clean-up runs when it settles
authLogout(s) == NewRequest(s, "logout", "svcLogout", 0)

\* authService.logout, try after the await: clear the token, remove the user
logoutTry(s) ==
  Ends(removeUser(clearAccessToken(s)), "authService.logout", "resolved")

\* variant: the catch of authService.logout throws the error again
logoutCatchRethrows(s) ==
  Ends(removeUser(clearAccessToken(s)), "authService.logout", "rejected")
\* authService.logout, catch: the same clean-up, the error is only logged
logoutCatch(s) ==
  Ends(removeUser(clearAccessToken(s)), "authService.logout", "resolved")

\* variant: useAuthStore.logout awaits nothing but throws before set
storeLogoutThrows(s) == Ends(authLogout(s), "useAuthStore.logout", "thrown")
\* useAuthStore.logout: authService.logout() is not awaited, then
\* set({user: null, isAuthenticated: false, isLoading: false})
storeLogout(s) ==
  Ends([authLogout(s) EXCEPT !.store = Anonymous],
       "useAuthStore.logout", "returned")

\* initializeAuth, catch: set({user: null, isAuthenticated: false,
\* isLoading: false}); nothing is thrown
initializeAuthCatch(s) ==
  Ends([s EXCEPT !.store = Anonymous], "useAuthStore.initializeAuth", "resolved")

\* authService.refreshToken, catch: this.logout() is not awaited, then
\* throw new Error("Session expired. Please login again.")
refreshTokenCatch(s) ==
  Ends(authLogout(s), "authService.refreshToken", "rejected")

\* useAuthStore.login, catch: set({user: null, isAuthenticated: false,
\* isLoading: false}); throw error
storeLoginCatch(s) ==
  Ends([s EXCEPT !.store = Anonymous], "useAuthStore.login", "rejected")

\* the apiClient promise of request r rejects with e: run the catch of the
\* code that awaits it (every owner but the interceptor)
CallerReject(s, r, e) ==
  LET s1 == Finish(s, r, "rejected", e, Null)
      owner == s.reqs[r].owner
  IN CASE owner = "svcLogout" -> logoutCatch(s1)
       [] owner = "svcLogin" ->
            storeLoginCatch(Ends(s1, "authService.login", "rejected"))
       [] owner = "svcRefresh" -> initializeAuthCatch(refreshTokenCatch(s1))
       [] OTHER -> s1

\* the apiClient promise of request r resolves with a response carrying
\* accessToken tok and user usr
CallerResolve(s, r, tok, usr) ==
  LET s1 == Finish(s, r, "resolved", NoErr, tok)
      owner == s.reqs[r].owner
  IN CASE owner = "svcLogout" -> logoutTry(s1)
       [] owner = "svcLogin" ->
            LET s3 == Ends(loginStores(s1, s.reqs[r].remember, tok, usr),
                           "authService.login", "resolved")
            IN Ends([s3 EXCEPT !.store = [user |-> usr,
                                          isAuthenticated |-> TRUE,
                                          isLoading |-> FALSE]],
                    "useAuthStore.login", "resolved")
       [] owner = "svcRefresh" ->
            IF Truthy(tok)
            THEN LET s2 == Ends(setAccessToken(s1, tok),
                                "authService.refreshToken", "resolved")
                 IN IF s2.lsUser # NoUser
                    THEN Ends([s2 EXCEPT !.store = [user |-> s2.lsUser,
                                                    isAuthenticated |-> TRUE,
                                                    isLoading |-> FALSE]],
                              "useAuthStore.initializeAuth", "resolved")
                    ELSE initializeAuthCatch(s2)
            ELSE initializeAuthCatch(refreshTokenCatch(s1))
       [] OTHER -> s1

\* ------------------------------------------------------------------------
\* Response interceptor: token refresh logic
\* ------------------------------------------------------------------------
\* .then((token) => { headers.Authorization = `Bearer ${token}`;
\*                    return apiClient(originalRequest); })
QueuedRetry(s, w, token) ==
  Send([s EXCEPT !.reqs[w].hdr = Bearer(token), !.reqs[w].resent = @ + 1], w)

\* processQueue, one promise of failedQueue: prom.reject(error) when error is
\* given, else prom.resolve(token)
SettleWaiter(s, w, failed, e, token) ==
  IF failed THEN CallerReject(s, w, e) ELSE QueuedRetry(s, w, token)

RECURSIVE SettleAll(_, _, _, _, _)
SettleAll(s, queue, failed, e, token) ==
  IF queue = <<>> THEN s
  ELSE SettleAll(SettleWaiter(s, Head(queue), failed, e, token),
                 Tail(queue), failed, e, token)

\* the default parameter token: string | null = null: an argument undefined
\* is bound to null
DefaultNull(token) == IF token = Undef THEN Null ELSE token

\* variant: the settled promises stay in failedQueue
processQueueKeeps(s, failed, e, token) ==
  SettleAll(s, s.failedQueue, failed, e, DefaultNull(token))
\* processQueue(error, token = null): settle every promise, then
\* failedQueue = []
processQueue(s, failed, e, token) ==
  [SettleAll(s, s.failedQueue, failed, e, DefaultNull(token))
     EXCEPT !.failedQueue = <<>>]

\* variant: isRefreshing is not reset
FinallyKeeps(s) == s
\* finally { isRefreshing = false; }
Finally(s) == [s EXCEPT !.isRefreshing = FALSE]

\* variant: the new token is not stored
StoreNewTokenSkips(s, tok) == s
\* const newAccessToken = response.data.accessToken;
\* tokenManager.setAccessToken(newAccessToken);
StoreNewToken(s, tok) == setAccessToken(s, tok)

\* try { ... } finally: the refresh call q resolved with accessToken tok
RefreshSucceeded(s, q, tok) ==
  LET p == s.reqs[q].parent
      s1 == Finish(s, q, "resolved", NoErr, tok)
      s2 == StoreNewToken(s1, tok)
      s3 == [s2 EXCEPT !.reqs[p].hdr = Bearer(tok), !.reqs[p].resent = @ + 1]
      s4 == Finally(s3)
      s5 == processQueue(s4, FALSE, NoErr, tok)
  IN Send(s5, p)

\* catch (refreshError) { ... } finally: the refresh call q rejected with e
RefreshFailed(s, q, e, path) ==
  LET p == s.reqs[q].parent
      s1 == Finish(s, q, "rejected", e, Null)
      s2 == RedirectToLogin(removeUser(clearAccessToken(s1)), path)
      s3 == Finally(s2)
      s4 == processQueue(s3, TRUE, e, Null)
  IN CallerReject(s4, p, e)

\* the promise of request r rejects with e
Reject(s, r, e, path) ==
  IF s.reqs[r].owner = "icpt" THEN RefreshFailed(s, r, e, path)
  ELSE CallerReject(s, r, e)

\* the promise of request r resolves
Resolve(s, r, tok, usr) ==
  IF s.reqs[r].owner = "icpt" THEN RefreshSucceeded(s, r, tok)
  ELSE CallerResolve(s, r, tok, usr)

\* variant: a 401 that arrives during a refresh is rejected at once
EnqueueRejects(s, r) == CallerReject(s, r, [sc |-> 401, of |-> r])
\* if (isRefreshing) return new Promise(... failedQueue.push({resolve, reject}))
Enqueue(s, r) ==
  [s EXCEPT !.failedQueue = Append(@, r), !.reqs[r].st = "queued"]

\* originalRequest._retry = true; isRefreshing = true;
\* await apiClient.post("/dreamsoftapi/Login/RefreshToken")
StartRefresh(s, r) ==
  NewRequest([s EXCEPT !.reqs[r].retry = TRUE,
                       !.reqs[r].st = "refreshing",
                       !.isRefreshing = TRUE],
             "refresh", "icpt", r)

\* variant: the _retry mark is not looked at
RetryMarkIgnored(req) == FALSE
\* originalRequest._retry
MarkedRetry(req) == req.retry

\* response interceptor, error handler, for the response (http, body) to r;
\* path is window.location.pathname while the task runs
ErrorHandler(s0, r, http, body, path) ==
  LET sc == Classify(http, body)
      e == [sc |-> sc, of |-> r]
      s == IF sc = 401 THEN [s0 EXCEPT !.reqs[r].n401 = @ + 1] ELSE s0
      kind == s.reqs[r].kind
  IN IF sc = 401 /\ ~MarkedRetry(s.reqs[r])
     THEN IF UrlIncludesRefreshToken(kind)
          THEN Reject(RedirectToLogin(removeUser(clearAccessToken(s)), path),
                      r, e, path)
          ELSE IF UrlIncludesLogin(kind) THEN Reject(s, r, e, path)
          ELSE IF s.isRefreshing THEN Enqueue(s, r)
          ELSE StartRefresh(s, r)
     ELSE Reject(s, r, e, path)

\* the error handler reads window.location.pathname for the response sc to r:
\* in the RefreshToken 401 branch and in catch (refreshError)
ReadsPathname(s, r, sc) ==
  \/ s.reqs[r].owner = "icpt"
  \/ sc = 401 /\ ~s.reqs[r].retry /\ UrlIncludesRefreshToken(s.reqs[r].kind)

\* ------------------------------------------------------------------------
\* Initial state and actions
\* ------------------------------------------------------------------------
Init ==
  /\ reqs = Empty
  /\ accessToken = Null
  /\ lsUser \in {NoUser, TheUser}
  /\ lsItems = {}
  /\ isRefreshing = FALSE
  /\ failedQueue = <<>>
  /\ store = Anonymous
  /\ pathname = NotRead
  /\ settled = Empty
  /\ redirected = 0
  /\ outcome = {}
  /\ minted = 0
  /\ nInit = 0
  /\ acted = FALSE

\* the promises callers are waiting for
Pending == {r \in DOMAIN reqs : reqs[r].owner # "icpt"}

OpsLeft == Cardinality(Pending) < MaxPending

InFlight == {r \in DOMAIN reqs : reqs[r].st = "inflight"}

\* a caller issues a request through apiClient
CallApi ==
  /\ Becomes(NewRequest(State, "api", "app", 0))
  /\ UNCHANGED <<minted, nInit, acted>>

ApiRequest == OpsLeft /\ CallApi

\* useAuthStore.login up to the await of the Login call
CallLogin ==
  /\ \E rememberMe \in BOOLEAN :
       Becomes(authLogin([State EXCEPT !.store.isLoading = TRUE], rememberMe))
  /\ acted' = TRUE
  /\ UNCHANGED <<minted, nInit>>

StoreLogin == OpsLeft /\ CallLogin

\* useAuthStore.logout: authService.logout() is not awaited
CallLogout ==
  /\ Becomes(storeLogout(State))
  /\ acted' = TRUE
  /\ UNCHANGED <<minted, nInit>>

StoreLogout == OpsLeft /\ CallLogout

\* useAuthStore.initializeAuth up to the await of authService.refreshToken;
\* App calls it from its mount effect, before any user interaction
CallInitializeAuth ==
  /\ nInit < MaxInit
  /\ ~acted
  /\ \E path \in Paths :
       IF isPublicRoute(path)
       THEN Becomes(Ends([State EXCEPT !.store = Anonymous,
                                       !.pathname = path],
                         "useAuthStore.initializeAuth", "resolved"))
       ELSE Becomes(NewRequest([State EXCEPT !.store.isLoading = TRUE,
                                             !.pathname = path],
                               "refresh", "svcRefresh", 0))
  /\ nInit' = nInit + 1
  /\ UNCHANGED <<minted, acted>>

InitializeAuth == OpsLeft /\ CallInitializeAuth

\* the requests of callers outside the auth code, and room for one more
ApiPending == {r \in Pending : reqs[r].owner = "app"}
ApiLeft == Cardinality(ApiPending) < MaxPending

\* the calls of the auth operations, and room for one more
AuthLeft == Cardinality(Pending \ ApiPending) < MaxAuth

\* the same operations, with MaxPending requests of other callers and
\* MaxAuth auth operations pending at once
CycleApiRequest == ApiLeft /\ CallApi
CycleLogin == AuthLeft /\ CallLogin
CycleLogout == AuthLeft /\ CallLogout
CycleInitializeAuth == AuthLeft /\ CallInitializeAuth

\* useAuthStore.setLoading(loading): set({isLoading: loading})
SetLoading ==
  /\ \E loading \in BOOLEAN :
       Becomes([State EXCEPT !.store.isLoading = loading])
  /\ UNCHANGED <<minted, nInit, acted>>

\* a 2xx response to r arrives; Login and RefreshToken answer
\* {accessToken, user}
Success(r) ==
  \E tok \in {minted + 1, Undef} :
    LET usr == IF reqs[r].kind = "login" THEN TheUser ELSE NoUser IN
      /\ tok \in TokenValues
      /\ reqs[r].kind \in {"api", "logout"} <=> tok = Undef
      /\ Becomes(Resolve(State, r, tok, usr))
      /\ minted' = IF Truthy(tok) THEN minted + 1 ELSE minted
      /\ UNCHANGED <<nInit, acted>>

\* an error response to r, a timeout or a network failure arrives
FailureWith(r, resp) ==
  \E path \in IF ReadsPathname(State, r, Classify(resp[1], resp[2]))
              THEN Paths ELSE {NotRead} :
    /\ Becomes(ErrorHandler(State, r, resp[1], resp[2], path))
    /\ UNCHANGED <<minted, nInit, acted>>

Failure(r) == \E resp \in ErrorResponses : FailureWith(r, resp)

ResponseSuccess == \E r \in InFlight : Success(r)

ResponseError == \E r \in InFlight : Failure(r)

Next ==
  \/ ApiRequest
  \/ StoreLogin
  \/ StoreLogout
  \/ InitializeAuth
  \/ SetLoading
  \/ ResponseSuccess
  \/ ResponseError

Spec == Init /\ [][Next]_vars

\* callers that only issue requests
NextApi ==
  \/ ApiRequest
  \/ ResponseSuccess
  \/ ResponseError

SpecApi == Init /\ [][NextApi]_vars

\* callers that issue requests and log in
NextLogin ==
  \/ ApiRequest
  \/ StoreLogin
  \/ ResponseSuccess
  \/ ResponseError

SpecLogin == Init /\ [][NextLogin]_vars

\* callers that issue requests while the application starts
NextInit ==
  \/ ApiRequest
  \/ InitializeAuth
  \/ ResponseSuccess
  \/ ResponseError

SpecInit == Init /\ [][NextInit]_vars

\* users that log in and log out
NextSession ==
  \/ StoreLogin
  \/ StoreLogout
  \/ ResponseSuccess
  \/ ResponseError

SpecSession == Init /\ [][NextSession]_vars

\* startup with a login form in use: no request starts a refresh cycle, so
\* the refresh call of initializeAuth is the only refresh call
NextStartup ==
  \/ InitializeAuth
  \/ StoreLogin
  \/ ResponseSuccess
  \/ ResponseError

SpecStartup == Init /\ [][NextStartup]_vars

\* users that only log out
NextLogout ==
  \/ StoreLogout
  \/ ResponseSuccess
  \/ ResponseError

SpecLogout == Init /\ [][NextLogout]_vars

\* the server answers a call with 401 Unauthorized
ResponseUnauthorized == \E r \in InFlight : FailureWith(r, <<401, 0>>)

\* requests of other callers blocked on a refresh while a login, a logout or
\* the start-up refresh runs, with a server that answers 2xx or 401
NextCycle ==
  \/ CycleApiRequest
  \/ CycleLogin
  \/ CycleLogout
  \/ CycleInitializeAuth
  \/ ResponseSuccess
  \/ ResponseUnauthorized

SpecCycle == Init /\ [][NextCycle]_vars

\* the axios timeout (timeout: API_TIMEOUT) ends the interceptor's
\* RefreshToken call when no response has arrived: an error without response
RefreshTimeout ==
  \E q \in InFlight :
    reqs[q].owner = "icpt" /\ FailureWith(q, <<0, 0>>)

IdBound == 2 * (MaxPending + MaxAuth) + 2

LiveSpec == SpecApi /\ WF_vars(RefreshTimeout)

TypeOK ==
  /\ accessToken \in TokenValues
  /\ isRefreshing \in BOOLEAN
  /\ \A r \in DOMAIN reqs :
       /\ reqs[r].kind \in Kinds
       /\ reqs[r].st \in {"inflight", "queued", "refreshing"}
       /\ r <= IdBound

\* ------------------------------------------------------------------------
\* Properties
\* ------------------------------------------------------------------------
Live == DOMAIN reqs

\* requests that go through the refresh logic: neither Login nor RefreshToken
Recoverable == {r \in Live : reqs[r].kind \notin {"login", "refresh"}}

\* the RefreshToken calls on the wire
RefreshInFlight ==
  {q \in Live : reqs[q].kind = "refresh" /\ reqs[q].st = "inflight"}

\* requests first sent with access token h that have received exactly one
\* 401 (for that first attempt, since only a 401 leads to another attempt)
Expired401(h) ==
  {r \in Recoverable : reqs[r].hdr0 = h /\ reqs[r].n401 = 1}

\* C1: N >= 2 requests sent with the same expired access token that all
\* receive 401 cause exactly one RefreshToken call of the interceptor: each
\* request with _retry set has made one such call, so at most one of them
\* has _retry set
C1_OneRefreshPerExpiredToken ==
  \A h \in Tokens :
    Cardinality({r \in Expired401(h) : reqs[r].retry}) <= 1

\* C2: at most one call to the RefreshToken endpoint is in flight, whether
\* started by the interceptor or by authService.refreshToken
C2_OneRefreshInFlight == Cardinality(RefreshInFlight) <= 1

\* C3: a request that was re-sent after a refresh and gets 401 again is
\* neither queued in failedQueue nor does it start another refresh
C3_ResentNeverRefreshesAgain ==
  \A r \in Live : reqs[r].resent > 0 => reqs[r].st = "inflight"

\* the interceptor's refresh calls that the last task saw answered with 401
\* by the RefreshToken endpoint
Refresh401Settled ==
  {q \in DOMAIN settled :
     /\ settled[q].owner = "icpt"
     /\ settled[q].res = "rejected"
     /\ settled[q].err = [sc |-> 401, of |-> q]}

\* C10: when the refresh made for a 401 is itself answered with 401,
\* window.location.href is assigned "/login" exactly once if the view is not
\* the login view, and not at all if it is
C10_RedirectOnce ==
  Refresh401Settled # {} =>
    redirected = IF PathIncludesLogin(pathname) THEN 0 ELSE 1

\* the requests whose promises wait in a queue
QueueSet(queue) == {queue[i] : i \in 1..Len(queue)}

\* the interceptor's own RefreshToken calls in flight
CycleCalls == {q \in Live : reqs[q].owner = "icpt"}

\* the requests blocked on the refresh call q: its initiator and the waiters
Blocked(q) == QueueSet(failedQueue) \cup {reqs[q].parent}

\* the task of this step settled the promise of r
Settles(r) == r \in DOMAIN settled'

\* the task of this step handled a response to r that classifies as 401
Got401(r) ==
  \/ /\ r \in DOMAIN reqs'
     /\ reqs'[r].kind = reqs[r].kind
     /\ reqs'[r].n401 = reqs[r].n401 + 1
  \/ Settles(r) /\ settled'[r].err = [sc |-> 401, of |-> r]

\* the RefreshToken calls the task of this step has made
NewRefreshCalls ==
  {q \in DOMAIN reqs' : reqs'[q].kind = "refresh"} \
  {q \in Live : reqs[q].kind = "refresh" /\ ~Settles(q)}

C4_QueueInv ==
  /\ \A i, j \in 1..Len(failedQueue) :
       i # j => failedQueue[i] # failedQueue[j]
  /\ QueueSet(failedQueue) = {r \in Live : reqs[r].st = "queued"}
  /\ failedQueue # <<>> => isRefreshing /\ Cardinality(CycleCalls) = 1

C4_Step ==
  \A w \in QueueSet(failedQueue) : \A q \in CycleCalls :
    \/ /\ ~Settles(q)
       /\ q \in DOMAIN reqs' /\ reqs'[q] = reqs[q]
       /\ w \in QueueSet(failedQueue')
       /\ w \in DOMAIN reqs' /\ reqs'[w] = reqs[w]
    \/ /\ Settles(q)
       /\ failedQueue' = <<>>
       /\ IF settled'[q].res = "resolved"
          THEN /\ ~Settles(w)
               /\ w \in DOMAIN reqs'
               /\ reqs'[w].st = "inflight"
               /\ reqs'[w].resent = reqs[w].resent + 1
          ELSE /\ Settles(w)
               /\ w \notin DOMAIN reqs'
               /\ settled'[w].res = "rejected"
               /\ settled'[w].err = settled'[q].err

\* C4: a waiter in failedQueue waits exactly as long as the refresh call of
\* the cycle that queued it is in flight; the task that ends the cycle
\* settles every waiter once (re-sent once on success, rejected with the
\* refresh error on failure) and leaves failedQueue empty
C4_WaitersSettledOnce == []C4_QueueInv /\ [][C4_Step]_vars

C4_Witness ==
  \E q \in DOMAIN settled :
    /\ settled[q].owner = "icpt"
    /\ settled[q].res = "resolved"
    /\ \E w \in Live :
         reqs[w].resent > 0 /\ ~reqs[w].retry /\ reqs[w].st = "inflight"

C5_Step ==
  \A q \in CycleCalls :
    Settles(q) /\ settled'[q].res = "resolved" =>
      \A r \in Blocked(q) :
        /\ r \in DOMAIN reqs'
        /\ reqs'[r].st = "inflight"
        /\ reqs'[r].hdr = settled'[q].data

\* C5: when a refresh call succeeds, its initiator and every waiter are sent
\* again with the access token that this refresh call returned
C5_SameNewToken == [][C5_Step]_vars

\* an initiator and a waiter first sent without a token are sent again with
\* token 2 of the refresh call, although a login had written token 1 after
\* they were sent and token 1 was in memory when the refresh call returned
C5_Witness ==
  \E q \in DOMAIN settled :
    /\ settled[q].owner = "icpt"
    /\ settled[q].res = "resolved"
    /\ settled[q].data = 2
    /\ settled[q].before = 1
    /\ lsUser = TheUser
    /\ \E p, w \in Live :
         /\ reqs[p].retry /\ reqs[p].resent > 0 /\ reqs[p].hdr = 2
         /\ ~reqs[w].retry /\ reqs[w].resent > 0 /\ reqs[w].hdr = 2
         /\ reqs[p].hdr0 = Null /\ reqs[w].hdr0 = Null

C6_Step ==
  \A q \in CycleCalls :
    Settles(q) /\ settled'[q].res = "rejected" =>
      /\ accessToken' = Null
      /\ \A r \in Blocked(q) :
           /\ r \notin DOMAIN reqs'
           /\ Settles(r)
           /\ settled'[r].res = "rejected"
           /\ settled'[r].err = settled'[q].err

\* C6: when the refresh call of a cycle fails, the initiator and every
\* waiter are rejected with the error of the refresh call, none of them is
\* sent again, and the access token is cleared
C6_RefreshFailureRejectsAll == [][C6_Step]_vars

C6_Witness ==
  \E q \in DOMAIN settled :
    /\ settled[q].owner = "icpt"
    /\ settled[q].res = "rejected"
    /\ Cardinality({r \in DOMAIN settled :
                      settled[r].kind = "api" /\ settled[r].res = "rejected"
                      /\ settled[r].err = settled[q].err}) >= 2
    /\ minted > 0

C7_Step ==
  \A q \in RefreshInFlight :
    Got401(q) =>
      /\ NewRefreshCalls = {}
      /\ accessToken' = Null
      /\ lsUser' = NoUser
      /\ Settles(q)
      /\ settled'[q].res = "rejected"

\* C7: a 401 from the RefreshToken endpoint starts no RefreshToken call; the
\* same task clears the access token and the stored user and rejects the
\* caller of the refresh
C7_Refresh401Ends == [][C7_Step]_vars

C7_Witness ==
  \E q \in DOMAIN settled :
    /\ settled[q].kind = "refresh"
    /\ settled[q].owner = "svcRefresh"
    /\ settled[q].err = [sc |-> 401, of |-> q]
    /\ isRefreshing

C8_Step ==
  \A r \in Live :
    reqs[r].kind = "login" /\ Got401(r) =>
      /\ NewRefreshCalls = {}
      /\ failedQueue' = failedQueue
      /\ isRefreshing' = isRefreshing
      /\ Settles(r)
      /\ settled'[r].res = "rejected"

\* C8: a 401 from the Login endpoint starts no RefreshToken call, queues
\* nothing and leaves isRefreshing as it is
C8_Login401Isolated == [][C8_Step]_vars

C8_Witness ==
  \E r \in DOMAIN settled :
    /\ settled[r].kind = "login"
    /\ settled[r].err = [sc |-> 401, of |-> r]
    /\ isRefreshing

C9_Step ==
  \A r \in Recoverable :
    /\ reqs[r].st = "inflight"
    /\ ~reqs[r].retry
    /\ ~isRefreshing
    /\ Got401(r)
    => /\ isRefreshing'
       /\ r \in DOMAIN reqs'
       /\ reqs'[r].st = "refreshing"
       /\ Cardinality(NewRefreshCalls) = 1

\* C9: isRefreshing, once true, becomes false again whether the refresh call
\* succeeds or fails, and a 401 arriving while it is false starts a new
\* refresh cycle
C9_RefreshingResets ==
  (isRefreshing ~> ~isRefreshing) /\ [][C9_Step]_vars

C9_Witness ==
  /\ isRefreshing
  /\ \E r \in Live : reqs[r].st = "refreshing" /\ reqs[r].resent > 0

\* the interceptor's refresh calls that failed in the last task
RefreshFailedSettled ==
  {q \in DOMAIN settled :
     settled[q].owner = "icpt" /\ settled[q].res = "rejected"}

\* C11: after a refresh failure in the interceptor the auth store is
\* anonymous, also when the view is the login view and nothing navigates
C11_StoreAnonymousAfterRefreshFailure ==
  RefreshFailedSettled # {} /\ redirected = 0 =>
    store.user = NoUser /\ ~store.isAuthenticated

C12_Inv ==
  \A r \in Recoverable :
    /\ reqs[r].st = "inflight" => reqs[r].resent = reqs[r].n401
    /\ reqs[r].st \in {"queued", "refreshing"} =>
         reqs[r].n401 = reqs[r].resent + 1

C12_Step ==
  \A r \in Recoverable :
    Settles(r) =>
      /\ settled'[r].res = "resolved" => settled'[r].resent = reqs[r].n401
      /\ settled'[r].err = [sc |-> 401, of |-> r] => reqs[r].retry

\* C12: a request that got 401 is sent again exactly once when the refresh
\* succeeds, and its promise stays pending until the re-sent request is
\* answered: it resolves after as many re-sends as 401s, and the caller sees
\* a 401 of the request only when the request had started the refresh itself
C12_TransparentRetry == []C12_Inv /\ [][C12_Step]_vars

C12_Witness ==
  \E r \in DOMAIN settled :
    /\ settled[r].kind = "api"
    /\ settled[r].res = "resolved"
    /\ settled[r].resent = 1
    /\ \E w \in Live : reqs[w].resent = 1 /\ ~reqs[w].retry

\* the failures that are not 401: no response, a status other than 401
\* without envelope, an envelope whose StatusCode is not 401
NonAuthFailures ==
  {resp \in ErrorResponses :
     ~(resp[2] = 401 \/ (resp[2] = 0 /\ resp[1] = 401))}

\* t is the state after the error handler ran for a failure of r: r was
\* rejected with the error of its own response, nothing was sent, and token,
\* stored user, isRefreshing, failedQueue and the session (user,
\* isAuthenticated) are as before
RejectedUnchanged(t, r) ==
  /\ r \in DOMAIN t.settled
  /\ t.settled[r].res = "rejected"
  /\ t.settled[r].err.of = r
  /\ t.settled[r].err.sc # 401
  /\ t.reqs = [x \in DOMAIN reqs \ {r} |-> reqs[x]]
  /\ t.accessToken = accessToken
  /\ t.lsUser = lsUser
  /\ t.isRefreshing = isRefreshing
  /\ t.failedQueue = failedQueue
  /\ t.store.user = store.user
  /\ t.store.isAuthenticated = store.isAuthenticated
  /\ t.redirected = 0

\* the states the error handler can leave for the failure resp of r
AfterFailure(r, resp) ==
  {ErrorHandler(State, r, resp[1], resp[2], path) : path \in Paths}

\* C13 as claimed: every request in flight that fails with a status other
\* than 401 or without response is rejected and nothing else changes
C13_AnyRequest ==
  \A r \in InFlight : \A resp \in NonAuthFailures :
    \A t \in AfterFailure(r, resp) : RejectedUnchanged(t, r)

\* C13: a request of a caller outside the auth code that fails with a status
\* other than 401 or without response is rejected to the caller, is not sent
\* again, starts no refresh and no redirect, and leaves token, stored user,
\* isRefreshing, failedQueue and the auth store unchanged
C13_CallerRequest ==
  \A r \in InFlight : \A resp \in NonAuthFailures :
    reqs[r].owner = "app" =>
      \A t \in AfterFailure(r, resp) : RejectedUnchanged(t, r)

C13_Witness ==
  /\ \E r \in DOMAIN settled :
       /\ settled[r].owner = "app"
       /\ settled[r].err = [sc |-> 500, of |-> r]
  /\ isRefreshing
  /\ hasAccessToken(accessToken)
  /\ store.isAuthenticated

\* responses the interceptor classifies as 401
AuthFailures == ErrorResponses \ NonAuthFailures

\* C14: a Login call answered with 401 is rejected without another attempt
\* and leaves the token, the stored user and the session (user,
\* isAuthenticated) as they were
C14_Login401NoSessionChange ==
  \A r \in InFlight : \A resp \in AuthFailures :
    reqs[r].kind = "login" =>
      \A t \in AfterFailure(r, resp) :
        /\ r \in DOMAIN t.settled
        /\ t.accessToken = accessToken
        /\ t.lsUser = lsUser
        /\ t.store.user = store.user
        /\ t.store.isAuthenticated = store.isAuthenticated

\* the Login calls that resolved in the last task
LoginResolved ==
  {r \in DOMAIN settled :
     settled[r].owner = "svcLogin" /\ settled[r].res = "resolved"}

\* C15: when the login action resolves, the token in memory is the access
\* token of that Login response, and the store is authenticated with the
\* returned user
C15_LoginStoresToken ==
  \A r \in LoginResolved :
    /\ hasAccessToken(accessToken)
    /\ accessToken = settled[r].data
    /\ store = [user |-> TheUser, isAuthenticated |-> TRUE,
                isLoading |-> FALSE]

C15_Witness ==
  \E r \in LoginResolved :
    /\ settled[r].data = 2
    /\ \E l \in Live : reqs[l].kind = "logout"

\* this step is a call of useAuthStore.logout: a Logout call of authService
\* is sent and no promise has settled (authService.refreshToken also calls
\* authService.logout, in the task that settles its RefreshToken call)
StoreLogoutReturned ==
  /\ settled' = Empty
  /\ \E r \in DOMAIN reqs' \ DOMAIN reqs : reqs'[r].owner = "svcLogout"

C16_Step == StoreLogoutReturned => ~hasAccessToken(accessToken')

\* C16: when useAuthStore.logout has returned, no access token is in memory
C16_LogoutClearsToken == [][C16_Step]_vars

C18_Step ==
  StoreLogoutReturned /\ hasAccessToken(accessToken') => store' # Anonymous

\* C18: logout does not make the session anonymous while the access token of
\* before the logout is still in memory; until the Logout call has settled
\* and the token is cleared the session is pending
C18_AnonymousOnlyAfterCleanup == [][C18_Step]_vars

\* the Logout calls of authService.logout that settled in the last task
LogoutSettled == {r \in DOMAIN settled : settled[r].owner = "svcLogout"}

\* the promise of authService.logout resolved and did not reject
LogoutResolved ==
  /\ [op |-> "authService.logout", res |-> "resolved"] \in outcome
  /\ [op |-> "authService.logout", res |-> "rejected"] \notin outcome

\* C17: whatever the outcome of the Logout call (2xx, 401, another status,
\* no response, a refresh it started that failed), the promise of
\* authService.logout resolves and never rejects, and once it has settled
\* the token is cleared and the stored user is removed
C17_LogoutAlwaysCleans ==
  /\ LogoutSettled # {} =>
       LogoutResolved /\ accessToken = Null /\ lsUser = NoUser
  /\ [op |-> "authService.logout", res |-> "rejected"] \notin outcome

C17_Witness ==
  /\ LogoutResolved
  /\ \E r \in LogoutSettled :
       /\ settled[r].res = "rejected"
       /\ settled[r].err.of # r
       /\ minted > 0

\* no token, no stored user, anonymous store
TornDown == accessToken = Null /\ lsUser = NoUser /\ store = Anonymous

\* useAuthStore.logout returned normally, and nothing else ended in the task
LogoutReturned ==
  outcome = {[op |-> "useAuthStore.logout", res |-> "returned"]}

\* no operation of the last task rejected or threw
NothingRaised == \A o \in outcome : o.res \in {"resolved", "returned"}

C19_Step == TornDown /\ StoreLogoutReturned => TornDown' /\ LogoutReturned'

\* C19: logout on the torn-down state returns without an error and leaves it
\* torn down; the promise of authService.logout it started resolves, and
\* when every Logout call has settled the state is torn down again
C19_LogoutIdempotent ==
  /\ [](acted /\ reqs = Empty => TornDown)
  /\ [](NothingRaised /\ (LogoutSettled # {} => LogoutResolved))
  /\ [][C19_Step]_vars

C19_Witness ==
  /\ reqs = Empty
  /\ TornDown
  /\ LogoutResolved
  /\ \E r \in LogoutSettled : settled[r].resent > 0

\* the RefreshToken calls of authService.refreshToken that failed in the
\* last task
StartupRefreshFailed ==
  {q \in DOMAIN settled :
     settled[q].owner = "svcRefresh" /\ settled[q].res = "rejected"}

\* the promise of initializeAuth resolved and did not reject
InitializeAuthResolved ==
  /\ [op |-> "useAuthStore.initializeAuth", res |-> "resolved"] \in outcome
  /\ [op |-> "useAuthStore.initializeAuth", res |-> "rejected"] \notin outcome

\* C20: when the refresh call of initializeAuth fails, initializeAuth does
\* not reject or throw and ends with the store anonymous (user null,
\* isAuthenticated false, isLoading false) and no token in memory
C20_StartupWithoutCookie ==
  StartupRefreshFailed # {} =>
    InitializeAuthResolved /\ store = Anonymous /\ accessToken = Null

\* the part of C20 that holds: initializeAuth never rejects and ends with
\* the store anonymous, and a refresh call refused with 401 leaves no token
C20_StartupEndsAnonymous ==
  \A q \in StartupRefreshFailed :
    /\ InitializeAuthResolved
    /\ store = Anonymous
    /\ settled[q].err.sc = 401 => accessToken = Null

\* the views the specification lists as not requiring authentication
NoAuthRoutes == {"/login", "/register"}

\* this step is a call of useAuthStore.initializeAuth
InitializeAuthReturned == nInit' = nInit + 1

C21_Step ==
  InitializeAuthReturned /\ pathname' \in NoAuthRoutes =>
    NewRefreshCalls = {} /\ store' = Anonymous

\* C21: initializeAuth on a view that does not require authentication (login,
\* register, forgot-password, reset-password) makes no RefreshToken call and
\* leaves the session anonymous
C21_NoAuthRouteSkipsRefresh == [][C21_Step]_vars

\* the RefreshToken calls of authService.refreshToken that the last task saw
\* answered with a new access token
StartupRefreshSucceeded ==
  {q \in DOMAIN settled :
     /\ settled[q].owner = "svcRefresh"
     /\ settled[q].res = "resolved"
     /\ Truthy(settled[q].data)}

\* C22: when the refresh call of initializeAuth succeeds the session is
\* authenticated and the token in memory is the new access token; when it
\* fails the session is anonymous; the refresh never succeeds with the
\* session ending anonymous
C22_StartupOutcome ==
  /\ \A q \in StartupRefreshSucceeded :
       store.isAuthenticated /\ accessToken = settled[q].data
  /\ StartupRefreshFailed # {} => ~store.isAuthenticated

\* C23: the access token is held only in memory (tokenManager): no operation
\* writes it into localStorage, which holds only the user profile and the
\* Remember Me data
C23_TokenOnlyInMemory ==
  /\ lsItems \subseteq RememberKeys
  /\ lsUser \in {NoUser, TheUser}

C23_Witness ==
  /\ nInit = 1
  /\ accessToken = 2
  /\ lsUser = TheUser
  /\ lsItems = RememberKeys
  /\ \E r \in DOMAIN settled :
       settled[r].owner = "icpt" /\ settled[r].res = "resolved"

\* the attempts the task of this step has put on the wire: requests in flight
\* afterwards that were not in flight before, or not as the same attempt
SentNow ==
  {r \in DOMAIN reqs' :
     /\ reqs'[r].st = "inflight"
     /\ r \in DOMAIN reqs => reqs'[r] # reqs[r]}

C24_Step ==
  \A r \in SentNow :
    reqs'[r].hdr =
      IF hasAccessToken(accessToken') THEN accessToken' ELSE Null

\* C24: every attempt that is sent, first attempts and re-sent ones, carries
\* the token tokenManager holds when it is sent, and no Authorization header
\* when tokenManager holds none; no task changes the token after sending
C24_HeaderIsCurrentToken == [][C24_Step]_vars

C24_Witness ==
  /\ accessToken = 2
  /\ \E r \in Live :
       /\ reqs[r].st = "inflight"
       /\ reqs[r].resent > 0
       /\ reqs[r].hdr0 = 1
       /\ reqs[r].hdr = 2
  /\ \E w \in Live :
       /\ reqs[w].st = "inflight"
       /\ reqs[w].resent > 0
       /\ ~reqs[w].retry
       /\ reqs[w].hdr = 2

\* in state t the error handler has put r into the refresh logic: r waits in
\* failedQueue or for the refresh call it started
InRecovery(t, r) ==
  /\ r \in DOMAIN t.reqs
  /\ t.reqs[r].st \in {"queued", "refreshing"}
  /\ t.isRefreshing

\* C25: the refresh logic is entered exactly for the responses whose
\* StatusCode is 401, the StatusCode being that of the body when the body is
\* an error envelope, else the HTTP status, else 500 without response: no
\* request enters it on another response, and a request that may be
\* recovered (not Login, not RefreshToken, not marked _retry) enters it on
\* every such response, whatever the HTTP status beside the body says
C25_StatusCodeDecidesRefresh ==
  \A r \in InFlight : \A resp \in ErrorResponses :
    \A t \in AfterFailure(r, resp) :
      /\ InRecovery(t, r) => resp \in AuthFailures
      /\ r \in Recoverable /\ ~reqs[r].retry /\ resp \in AuthFailures
           => InRecovery(t, r)

C25_Witness ==
  /\ isRefreshing
  /\ \E r \in Recoverable : reqs[r].st = "refreshing" /\ reqs[r].n401 = 1
  /\ \E x \in DOMAIN settled :
       /\ settled[x].kind = "api"
       /\ settled[x].err = [sc |-> 500, of |-> x]
       /\ settled[x].resent = 1

C26_Inv == ~isRefreshing => failedQueue = <<>>

C26_Step ==
  /\ QueueSet(failedQueue') \ QueueSet(failedQueue) # {} =>
       isRefreshing /\ CycleCalls # {} /\ CycleCalls \subseteq DOMAIN reqs'
  /\ isRefreshing /\ ~isRefreshing' => failedQueue' = <<>>

\* C26: whenever a task has ended, isRefreshing = false implies that
\* failedQueue is empty: a request is queued only while the refresh call of
\* the interceptor is in flight, and the task that resets isRefreshing has
\* emptied the queue
C26_QueueEmptyUnlessRefreshing == []C26_Inv /\ [][C26_Step]_vars

C26_Witness ==
  /\ ~isRefreshing
  /\ failedQueue = <<>>
  /\ \E q \in DOMAIN settled : settled[q].owner = "icpt"
  /\ \E w \in DOMAIN settled :
       /\ settled[w].owner = "app"
       /\ settled[w].res = "rejected"
       /\ settled[w].err.of # w
       /\ \E p \in DOMAIN settled : p # w /\ settled[p].owner = "app"

\* C27: for every interleaving of login, logout and the responses to their
\* calls, once no call is in flight an authenticated store has an access
\* token in memory; a Logout call that completes late does not clear the
\* token of a login that succeeded after logout was invoked
C27_AuthenticatedHasToken ==
  reqs = Empty /\ store.isAuthenticated => hasAccessToken(accessToken)

\* C28: a request marked _retry that receives 401 is only rejected, with the
\* error of that response: the handler does nothing beyond handing the
\* rejection to the code that awaits the request, sends nothing, leaves
\* isRefreshing and failedQueue as they are and does not redirect; for a
\* caller outside the auth code the token, the stored user and the auth
\* store stay as they are too
C28_RetriedRequestOnlyRejected ==
  \A r \in InFlight : \A resp \in AuthFailures :
    reqs[r].retry =>
      \A t \in AfterFailure(r, resp) :
        /\ t = CallerReject(State, r, [sc |-> 401, of |-> r])
        /\ r \in DOMAIN t.settled
        /\ t.settled[r].res = "rejected"
        /\ t.settled[r].err = [sc |-> 401, of |-> r]
        /\ t.reqs = [x \in DOMAIN reqs \ {r} |-> reqs[x]]
        /\ t.isRefreshing = isRefreshing
        /\ t.failedQueue = failedQueue
        /\ t.redirected = 0
        /\ t.pathname = NotRead
        /\ reqs[r].owner = "app" =>
             /\ t.accessToken = accessToken
             /\ t.lsUser = lsUser
             /\ t.store = store

C28_Witness ==
  /\ \E r \in DOMAIN settled :
       /\ settled[r].owner = "app"
       /\ settled[r].err = [sc |-> 401, of |-> r]
       /\ settled[r].resent = 1
  /\ isRefreshing
  /\ hasAccessToken(accessToken)

\* a bound on the re-sends of one request that does not grow with the number
\* of refreshes that succeed stays below the number of tokens the server
\* issues; with two tokens it is the single re-send the _retry mark allows
ResendBound == MaxTok - 1

\* C29: a request causes only a bounded number of re-sends even when the
\* server answers 401 to every attempt and every refresh succeeds: no
\* request is re-sent more than ResendBound times
C29_BoundedResends ==
  \A r \in Live : reqs[r].resent <= ResendBound

\* further cases of C5 that SpecCycle reaches: the write in between is a
\* logout that emptied the token the requests were first sent with
C5_LogoutCase ==
  \E q \in DOMAIN settled :
    /\ settled[q].owner = "icpt" /\ settled[q].res = "resolved"
    /\ settled[q].data = 2 /\ settled[q].before = Null
    /\ \E p, w \in Live :
         /\ reqs[p].retry /\ reqs[p].resent > 0 /\ reqs[p].hdr = 2
         /\ ~reqs[w].retry /\ reqs[w].resent > 0 /\ reqs[w].hdr = 2
         /\ reqs[p].hdr0 = 1 /\ reqs[w].hdr0 = 1

\* the write in between is the start-up refresh of initializeAuth
C5_RefreshCase ==
  \E q \in DOMAIN settled :
    /\ settled[q].owner = "icpt" /\ settled[q].res = "resolved"
    /\ settled[q].data = 2 /\ settled[q].before = 1
    /\ ~acted /\ nInit = 1
    /\ \E p, w \in Live :
         /\ reqs[p].retry /\ reqs[p].resent > 0 /\ reqs[p].hdr = 2
         /\ ~reqs[w].retry /\ reqs[w].resent > 0 /\ reqs[w].hdr = 2
         /\ reqs[p].hdr0 = Null /\ reqs[w].hdr0 = Null

\* the initiator and two waiters are sent again in one task
C5_TwoWaiters ==
  \E q \in DOMAIN settled :
    /\ settled[q].owner = "icpt" /\ settled[q].res = "resolved"
    /\ \E p, w, v \in Live :
         /\ w # v
         /\ reqs[p].retry /\ reqs[p].resent > 0
         /\ ~reqs[w].retry /\ reqs[w].resent > 0
         /\ ~reqs[v].retry /\ reqs[v].resent > 0
         /\ \A r \in {p, w, v} : reqs[r].hdr = settled[q].data

====
